---- MODULE Spec2Model ----
(***************************************************************************)
(* Model of lighthouse-cli/test/smokehouse/smokehouse.js (the smoke        *)
(* runner) and lighthouse-core/scripts/timings.js (collect / summarize).   *)
(* Strings are sequences of one-character strings.                         *)
(***************************************************************************)
EXTENDS Integers, Sequences, FiniteSets, TLC

(* ---------------------------------------------------------------------- *)
(* Bounds                                                                   *)
(* ---------------------------------------------------------------------- *)
MaxParts == 2
MaxLines == 2
MaxExpectations == 2
MaxFiles == 2
MaxEntries == 2
MaxUrls == 2
MaxN == 2

(* ---------------------------------------------------------------------- *)
(* Program constants                                                        *)
(* ---------------------------------------------------------------------- *)
PROTOCOL_TIMEOUT_EXIT_CODE == 67
RETRIES == 3
\* new Date().toUTCString().length, e.g. "Mon, 01 Jan 2019 00:00:00 GMT"
timestampLength == 29

(* ---------------------------------------------------------------------- *)
(* String helpers (JavaScript String / RegExp primitives)                   *)
(* ---------------------------------------------------------------------- *)
\* String.prototype.substr(start) with start >= 0
Substr(s, start) == SubSeq(s, start + 1, Len(s))

\* /^p/.test(s)
StartsWith(s, p) == Len(s) >= Len(p) /\ SubSeq(s, 1, Len(p)) = p

\* /p/.test(s) for a literal p
Contains(s, p) ==
  \E i \in 1..(Len(s) - Len(p) + 1) : SubSeq(s, i, i + Len(p) - 1) = p

Weekdays ==
  { <<"M","o","n">>, <<"T","u","e">>, <<"W","e","d">>, <<"T","h","u">>,
    <<"F","r","i">>, <<"S","a","t">>, <<"S","u","n">> }

\* /^(Mon|Tue|Wed|Thu|Fri|Sat|Sun)/.test(line)
BeginsWithWeekday(line) == \E d \in Weekdays : StartsWith(line, d)

\* /:(warn|error)/.test(line)
HasLevelMarker(line) ==
  \/ Contains(line, <<":","w","a","r","n">>)
  \/ Contains(line, <<":","e","r","r","o","r">>)

\* index of the first "\n" of s, or 0
NewlineAt(s) ==
  IF \E i \in 1..Len(s) : s[i] = "\n"
  THEN CHOOSE i \in 1..Len(s) : s[i] = "\n" /\ \A j \in 1..(i - 1) : s[j] # "\n"
  ELSE 0

RECURSIVE Split(_)
\* String.prototype.split('\n')
Split(s) ==
  IF NewlineAt(s) = 0 THEN <<s>>
  ELSE <<SubSeq(s, 1, NewlineAt(s) - 1)>> \o Split(SubSeq(s, NewlineAt(s) + 1, Len(s)))

RECURSIVE Join(_, _)
\* Array.prototype.join(sep)
Join(lines, sep) ==
  IF lines = <<>> THEN <<>>
  ELSE IF Len(lines) = 1 THEN lines[1]
  ELSE lines[1] \o sep \o Join(Tail(lines), sep)

\* variant: the prefix is stripped from every line
StripAlways(line) == Substr(line, timestampLength + 1)

\* the .map() callback of the normalization
StripTimestamp(line) ==
  IF BeginsWithWeekday(line) THEN Substr(line, timestampLength + 1) ELSE line

\* .map(StripTimestamp).filter(HasLevelMarker) over an array of lines
NormalizeLines(lines) ==
  SelectSeq([i \in 1..Len(lines) |-> StripTimestamp(lines[i])], HasLevelMarker)

\* runResults.stderr.split('\n').map(...).filter(...)
Normalize(stderr) == NormalizeLines(Split(stderr))

(* ---------------------------------------------------------------------- *)
(* Inputs of the normalization: lines built from a few fragments           *)
(* ---------------------------------------------------------------------- *)
Stamp ==
  <<"M","o","n",","," ","0","1"," ","J","a","n"," ","2","0","1","9"," ",
    "0","0",":","0","0",":","0","0"," ","G","M","T"," ">>

Fragments ==
  { Stamp, <<"S","u","n",":","w","a","r","n">>, <<":","e","r","r","o","r">> }

RECURSIVE LinesOfParts(_)
LinesOfParts(n) ==
  IF n = 0 THEN { <<>> }
  ELSE LET shorter == LinesOfParts(n - 1)
       IN  shorter \cup { l \o f : l \in shorter, f \in Fragments }

InputLines == LinesOfParts(MaxParts)

RECURSIVE LineSeqs(_)
LineSeqs(n) ==
  IF n = 0 THEN { <<>> }
  ELSE LET shorter == LineSeqs(n - 1)
       IN  shorter \cup { Append(ls, l) : ls \in { x \in shorter : Len(x) = n - 1 },
                                          l \in InputLines }

\* a raw error stream: at least one line (split never returns an empty array)
RawStderrs == { Join(ls, <<"\n">>) : ls \in LineSeqs(MaxLines) \ { <<>> } }

(* ---------------------------------------------------------------------- *)
(* Snapshot paths (getSnapshotPath)                                         *)
(* ---------------------------------------------------------------------- *)
Alnum ==
  { "a","b","c","d","e","f","g","h","i","j","k","l","m","n","o","p","q","r",
    "s","t","u","v","w","x","y","z",
    "A","B","C","D","E","F","G","H","I","J","K","L","M","N","O","P","Q","R",
    "S","T","U","V","W","X","Y","Z",
    "0","1","2","3","4","5","6","7","8","9" }

\* String.prototype.replace(/[^a-zA-Z0-9]/g, '_')
EscapeNonAlnum(s) == [i \in 1..Len(s) |-> IF s[i] \in Alnum THEN s[i] ELSE "_"]

\* index of the first "?" of s, or Len(s) + 1
QueryStart(s) ==
  IF \E i \in 1..Len(s) : s[i] = "?"
  THEN CHOOSE i \in 1..Len(s) : s[i] = "?" /\ \A j \in 1..(i - 1) : s[j] # "?"
  ELSE Len(s) + 1

\* new URL(s).search: "?query", or "" when the query is absent or empty
UrlSearch(s) ==
  IF QueryStart(s) >= Len(s) THEN <<>> ELSE SubSeq(s, QueryStart(s), Len(s))

\* href of new URL(s) after url.search = ''
UrlHrefNoSearch(s) == SubSeq(s, 1, QueryStart(s) - 1)

\* crypto.createHash('md5').update(input).digest('hex').substr(0, 6)
Md5Hex6(input) ==
  CASE input = <<"u","r","l",".","s","e","a","r","c","h">> -> <<"7","9","2","c","0","7">>
    [] input = <<"?","x">> -> <<"6","a","f","e","b","3">>
    [] input = <<"?","y">> -> <<"e","7","2","d","d","b">>

\* const searchHash = url.search && md5('url.search').substr(0, 6)
SearchHash(search) ==
  IF search = <<>> THEN <<>>
  ELSE Md5Hex6(<<"u","r","l",".","s","e","a","r","c","h">>)

getSnapshotPath(requestedUrl) ==
  LET escapedUrl == EscapeNonAlnum(UrlHrefNoSearch(requestedUrl))
      filename == escapedUrl \o <<"_">> \o SearchHash(UrlSearch(requestedUrl))
                    \o <<".","j","s","o","n">>
  IN  <<"snapshots/">> \o filename

(* ---------------------------------------------------------------------- *)
(* Snapshot file format: JSON.stringify(lines, null, 2) / JSON.parse        *)
(* ---------------------------------------------------------------------- *)
RECURSIVE JsonEscape(_)
JsonEscape(s) ==
  IF s = <<>> THEN <<>>
  ELSE (IF Head(s) \in {"\"", "\\"} THEN <<"\\", Head(s)>> ELSE <<Head(s)>>)
         \o JsonEscape(Tail(s))

JsonString(s) == <<"\"">> \o JsonEscape(s) \o <<"\"">>

RECURSIVE JsonItems(_)
JsonItems(lines) ==
  IF Len(lines) = 1 THEN <<"\n", " ", " ">> \o JsonString(lines[1])
  ELSE <<"\n", " ", " ">> \o JsonString(lines[1]) \o <<",">> \o JsonItems(Tail(lines))

\* JSON.stringify(lines, null, 2) for an array of strings
JsonStringify(lines) ==
  IF lines = <<>> THEN <<"[", "]">>
  ELSE <<"[">> \o JsonItems(lines) \o <<"\n", "]">>

RECURSIVE JsonScan(_, _, _, _, _)
\* inStr: inside a string literal; cur: the string read so far; acc: strings read
JsonScan(t, i, inStr, cur, acc) ==
  IF i > Len(t) THEN acc
  ELSE IF ~inStr THEN
         IF t[i] = "\"" THEN JsonScan(t, i + 1, TRUE, <<>>, acc)
         ELSE JsonScan(t, i + 1, FALSE, cur, acc)
  ELSE IF t[i] = "\\" THEN JsonScan(t, i + 2, TRUE, Append(cur, t[i + 1]), acc)
  ELSE IF t[i] = "\"" THEN JsonScan(t, i + 1, FALSE, <<>>, Append(acc, cur))
  ELSE JsonScan(t, i + 1, TRUE, Append(cur, t[i]), acc)

\* JSON.parse(text) for the text of an array of strings
JsonParse(text) == JsonScan(text, 1, FALSE, <<>>, <<>>)

VARIABLES npc, rawStderr, once, twice

nvars == <<npc, rawStderr, once, twice>>

\* the smoke runner
VARIABLES expectations, updateSnaphots, files, pc, idx, runCount, status,
          passingCount, failingCount, exitStatus,
          attempts, fatal, compared, counted, lastRun

svars == <<expectations, updateSnaphots, files, pc, idx, runCount, status,
           passingCount, failingCount, exitStatus,
           attempts, fatal, compared, counted, lastRun>>

\* timings.js --summarize
VARIABLES tpc, lhrs, measureFilter, fi, measuresMap, results

tvars == <<tpc, lhrs, measureFilter, fi, measuresMap, results>>

\* timings.js --collect
VARIABLES cpc, urls, argv_n, strict, outputDir, ui, ri

cvars == <<cpc, urls, argv_n, strict, outputDir, ui, ri>>

vars == <<nvars, svars, tvars, cvars>>

(* ---------------------------------------------------------------------- *)
(* The smoke runner: inputs                                                 *)
(* ---------------------------------------------------------------------- *)
NoExit == -1

Urls ==
  { <<"h",":","/","a","?","x">>, <<"h",":","/","a","?","y">>, <<"h",":","/","b">> }

Unset == [set |-> FALSE, lines |-> <<>>]
SetTo(lines) == [set |-> TRUE, lines |-> lines]

\* an expectation as loaded: stderr unset, or (wrongly) set to an array
Expectations == [requestedUrl : Urls, stderr : {Unset, SetTo(<<>>)}]

RECURSIVE ExpectationLists(_)
ExpectationLists(n) ==
  IF n = 0 THEN { <<>> }
  ELSE LET shorter == ExpectationLists(n - 1)
       IN  shorter \cup { Append(l, e) : l \in { x \in shorter : Len(x) = n - 1 },
                                         e \in Expectations }

SnapshotPaths == { getSnapshotPath(u) : u \in Urls }

NoFile == [exists |-> FALSE, data |-> <<>>]
FileOf(data) == [exists |-> TRUE, data |-> data]

WarnLine == <<"c",":","w","a","r","n"," ","x">>
ErrorLine == <<"c",":","e","r","r","o","r">>

\* a snapshot written by an earlier run
PriorSnapshots == { FileOf(JsonStringify(<<WarnLine>>)) }

\* what the tool may print on its error stream
ToolStderrs ==
  { <<>>, <<"n","o","i","s","e">> \o <<"\n">> \o Stamp \o ErrorLine }

ToolExitCodes == { 0, 1, PROTOCOL_TIMEOUT_EXIT_CODE }

\* the <<passed, failed>> pairs report() may return
ReportCounts == { <<0, 0>>, <<1, 0>>, <<0, 1>> }

NoRun ==
  [ran |-> FALSE, idx |-> 0, exitCode |-> 0, outputExists |-> FALSE,
   runtimeError |-> FALSE, stderr |-> <<>>, path |-> <<>>, before |-> NoFile,
   compared |-> FALSE, expected |-> Unset, passed |-> 0, failed |-> 0]

SmokeOff ==
  /\ expectations = <<>>
  /\ updateSnaphots = FALSE
  /\ files = [p \in SnapshotPaths |-> NoFile]
  /\ pc = "off"
  /\ idx = 0
  /\ runCount = 0
  /\ status = 0
  /\ passingCount = 0
  /\ failingCount = 0
  /\ exitStatus = NoExit
  /\ attempts = <<>>
  /\ fatal = "none"
  /\ compared = <<>>
  /\ counted = <<0, 0>>
  /\ lastRun = NoRun

SmokeInit ==
  /\ expectations \in ExpectationLists(MaxExpectations)
  /\ updateSnaphots \in BOOLEAN
  /\ files \in [SnapshotPaths -> {NoFile} \cup PriorSnapshots]
  /\ pc = IF expectations = <<>> THEN "summary" ELSE "run"
  /\ idx = 1
  /\ runCount = 0
  /\ status = 0
  /\ passingCount = 0
  /\ failingCount = 0
  /\ exitStatus = NoExit
  /\ attempts = <<>>
  /\ fatal = "none"
  /\ compared = <<>>
  /\ counted = <<0, 0>>
  /\ lastRun = NoRun

(* ---------------------------------------------------------------------- *)
(* The smoke runner: operations                                             *)
(* ---------------------------------------------------------------------- *)
\* variant: the retry ceiling is off by one
ShouldRetry_OffByOne(st, count) ==
  st = PROTOCOL_TIMEOUT_EXIT_CODE /\ count <= RETRIES + 1

\* while (runResults.status === PROTOCOL_TIMEOUT_EXIT_CODE && runCount <= RETRIES)
ShouldRetry(st, count) == st = PROTOCOL_TIMEOUT_EXIT_CODE /\ count <= RETRIES

\* Boolean(exitCode): a number is truthy unless it is 0
Truthy(n) == n # 0

\* variant: only a runtimeError without an error exit code is caught
ExitCodeAgrees_OneWay(exitCode, runtimeError) == Truthy(exitCode) \/ ~runtimeError

\* the negation of: Boolean(exitCode) !== Boolean(lhr.runtimeError)
ExitCodeAgrees(exitCode, runtimeError) == Truthy(exitCode) = runtimeError

\* variant: update mode creates missing snapshots but keeps existing ones
SnapshotStep_KeepExisting(file, update, stderr) ==
  IF file.exists
  THEN IF update
       THEN [file |-> file, expected |-> SetTo(stderr)]
       ELSE [file |-> file, expected |-> SetTo(JsonParse(file.data))]
  ELSE IF update
       THEN [file |-> FileOf(JsonStringify(stderr)), expected |-> SetTo(stderr)]
       ELSE [file |-> file, expected |-> Unset]

\* variant: a missing snapshot is created even when update mode is off
SnapshotStep_CreateMissing(file, update, stderr) ==
  IF file.exists
  THEN IF update
       THEN [file |-> FileOf(JsonStringify(stderr)), expected |-> SetTo(stderr)]
       ELSE [file |-> file, expected |-> SetTo(JsonParse(file.data))]
  ELSE [file |-> FileOf(JsonStringify(stderr)), expected |-> SetTo(stderr)]

\* the snapshot branch of the forEach callback: the file and expected.stderr
\* it leaves behind
SnapshotStep(file, update, stderr) ==
  IF file.exists
  THEN IF update
       THEN [file |-> FileOf(JsonStringify(stderr)), expected |-> SetTo(stderr)]
       ELSE [file |-> file, expected |-> SetTo(JsonParse(file.data))]
  ELSE IF update
       THEN [file |-> FileOf(JsonStringify(stderr)), expected |-> SetTo(stderr)]
       ELSE [file |-> file, expected |-> Unset]

\* variant: the counter is assigned instead of incremented
Accumulate_Assign(count, n) == n

\* passingCount += counts.passed; failingCount += counts.failed
Accumulate(count, n) == count + n

\* one iteration of the do-while loop of runLighthouse
Spawn(code) ==
  /\ pc = "run"
  /\ runCount' = runCount + 1
  /\ status' = code
  /\ attempts' = Append(attempts, code)
  /\ pc' = IF ShouldRetry(code, runCount + 1) THEN "run" ELSE "ran"
  /\ UNCHANGED <<expectations, updateSnaphots, files, idx, passingCount,
                 failingCount, exitStatus, fatal, compared, counted, lastRun>>

\* process.exit(code), or an uncaught exception (code 1)
Exit(code, why, run) ==
  /\ pc' = "exit"
  /\ exitStatus' = code
  /\ fatal' = why
  /\ lastRun' = run
  /\ UNCHANGED <<expectations, updateSnaphots, files, idx, runCount, status,
                 passingCount, failingCount, attempts, compared, counted>>

\* the rest of runLighthouse after the loop, up to the exit-code check; the
\* run of the current expectation ends the process here or goes on to Compare
CheckRun(outputExists, runtimeError) ==
  /\ pc = "ran"
  /\ LET expected == expectations[idx]
         exitCode == status
         snapshotPath == getSnapshotPath(expected.requestedUrl)
         run == [ran |-> TRUE, idx |-> idx, exitCode |-> exitCode,
                 outputExists |-> outputExists, runtimeError |-> runtimeError,
                 stderr |-> <<>>, path |-> snapshotPath,
                 before |-> files[snapshotPath],
                 compared |-> FALSE, expected |-> expected.stderr,
                 passed |-> 0, failed |-> 0]
     IN  IF exitCode = PROTOCOL_TIMEOUT_EXIT_CODE
           THEN Exit(1, "timeout", run)
         ELSE IF ~outputExists
           THEN Exit(exitCode, "noreport", run)
         ELSE IF ~ExitCodeAgrees(exitCode, runtimeError)
           THEN Exit(1, "mismatch", run)
         ELSE
           /\ pc' = "checked"
           /\ lastRun' = run
           /\ UNCHANGED <<expectations, updateSnaphots, files, idx, runCount,
                          status, passingCount, failingCount, exitStatus,
                          attempts, fatal, compared, counted>>

\* the normalization that ends runLighthouse, and the rest of the forEach
\* callback for the current expectation
Compare(toolStderr, passed, failed) ==
  /\ pc = "checked"
  /\ LET expected == expectations[idx]
         stderr == Normalize(toolStderr)
         snapshotPath == getSnapshotPath(expected.requestedUrl)
         step == SnapshotStep(files[snapshotPath], updateSnaphots, stderr)
     IN  IF expected.stderr.set
           THEN Exit(1, "preset", [lastRun EXCEPT !.stderr = stderr])
         ELSE
           /\ files' = [files EXCEPT ![snapshotPath] = step.file]
           /\ expectations' = [expectations EXCEPT ![idx].stderr = step.expected]
           /\ passingCount' = Accumulate(passingCount, passed)
           /\ failingCount' = Accumulate(failingCount, failed)
           /\ compared' = Append(compared, idx)
           /\ counted' = <<counted[1] + passed, counted[2] + failed>>
           /\ lastRun' = [lastRun EXCEPT !.stderr = stderr, !.compared = TRUE,
                                         !.expected = step.expected,
                                         !.passed = passed, !.failed = failed]
           /\ idx' = idx + 1
           /\ runCount' = 0
           /\ attempts' = <<>>
           /\ pc' = IF idx = Len(expectations) THEN "summary" ELSE "run"
           /\ UNCHANGED <<updateSnaphots, status, exitStatus, fatal>>

\* after the forEach: print the totals, process.exit(1) if anything failed
Summary ==
  /\ pc = "summary"
  /\ pc' = "exit"
  /\ exitStatus' = IF failingCount # 0 THEN 1 ELSE 0
  /\ UNCHANGED <<expectations, updateSnaphots, files, idx, runCount, status,
                 passingCount, failingCount, attempts, fatal, compared,
                 counted, lastRun>>

NormOff ==
  /\ npc = "off"
  /\ rawStderr = <<>>
  /\ once = <<>>
  /\ twice = <<>>

(* ---------------------------------------------------------------------- *)
(* timings.js: summarize                                                    *)
(* ---------------------------------------------------------------------- *)
LowerOf(c) ==
  CASE c = "A" -> "a" [] c = "B" -> "b" [] OTHER -> c

ToLower(s) == [i \in 1..Len(s) |-> LowerOf(s[i])]

NoFilter == [set |-> FALSE, pattern |-> <<>>]

\* measureFilter && !measureFilter.test(measureName), the filter being
\* new RegExp(pattern, 'i') for a literal pattern
FilteredOut(filter, measureName) ==
  filter.set /\ ~Contains(ToLower(measureName), ToLower(filter.pattern))

\* `${lhr.requestedUrl}@@@${measureName}`
MeasuresKey(url, measureName) == url \o <<"@","@","@">> \o measureName

\* index of the first "@@@" of s, or 0
KeySepAt(s) ==
  IF Contains(s, <<"@","@","@">>)
  THEN CHOOSE i \in 1..(Len(s) - 2) :
         /\ SubSeq(s, i, i + 2) = <<"@","@","@">>
         /\ \A j \in 1..(i - 1) : SubSeq(s, j, j + 2) # <<"@","@","@">>
  ELSE 0

\* const [url, measureName] = measuresKey.split('@@@'), for a key with one "@@@"
KeyUrl(key) == SubSeq(key, 1, KeySepAt(key) - 1)
KeyMeasure(key) == SubSeq(key, KeySepAt(key) + 3, Len(key))

\* lhr.timing.entries.find(measure => measure.name === measureName)
FindEntry(entries, measureName) ==
  entries[CHOOSE i \in 1..Len(entries) :
            /\ entries[i].name = measureName
            /\ \A j \in 1..(i - 1) : entries[j].name # measureName]

\* position of key in the map, or 0
MapIndex(map, key) ==
  IF \E i \in 1..Len(map) : map[i].key = key
  THEN CHOOSE i \in 1..Len(map) : map[i].key = key
  ELSE 0

\* measuresMap.get / measuresMap.set / measures.push
PushMeasure(map, key, duration) ==
  IF MapIndex(map, key) = 0
  THEN Append(map, [key |-> key, measures |-> <<duration>>])
  ELSE [map EXCEPT ![MapIndex(map, key)].measures = Append(@, duration)]

RECURSIVE AddEntries(_, _, _, _)
\* the inner loop over lhr.timing.entries.map(entry => entry.name), from entry i
AddEntries(map, lhr, filter, i) ==
  IF i > Len(lhr.entries) THEN map
  ELSE LET measureName == lhr.entries[i].name
       IN  IF FilteredOut(filter, measureName)
           THEN AddEntries(map, lhr, filter, i + 1)
           ELSE AddEntries(
                  PushMeasure(map, MeasuresKey(lhr.requestedUrl, measureName),
                              FindEntry(lhr.entries, measureName).duration),
                  lhr, filter, i + 1)

RECURSIVE SeqMin(_)
SeqMin(q) ==
  IF Len(q) = 1 THEN q[1]
  ELSE LET m == SeqMin(Tail(q)) IN IF q[1] < m THEN q[1] ELSE m

RECURSIVE SeqMax(_)
SeqMax(q) ==
  IF Len(q) = 1 THEN q[1]
  ELSE LET m == SeqMax(Tail(q)) IN IF q[1] > m THEN q[1] ELSE m

\* Math.round(value * 10) / 10, durations counted in hundredths
round(value) == 10 * ((value + 5) \div 10)

\* one row of the report (mean and stdev are not modelled)
Row(entry) ==
  [measure |-> KeyMeasure(entry.key), url |-> KeyUrl(entry.key),
   n |-> Len(entry.measures),
   min |-> round(SeqMin(entry.measures)), max |-> round(SeqMax(entry.measures))]

MeasureNames == { <<"a","B">>, <<"a">> }
Durations == { 1000, 2504 }
LhrUrls == { <<"u">>, <<"v">> }
TimingEntries == [name : MeasureNames, duration : Durations]

RECURSIVE SeqsUpTo(_, _)
SeqsUpTo(S, k) ==
  IF k = 0 THEN { <<>> }
  ELSE LET shorter == SeqsUpTo(S, k - 1)
       IN  shorter \cup { Append(q, x) : q \in { y \in shorter : Len(y) = k - 1 },
                                         x \in S }

Lhrs == [requestedUrl : LhrUrls, entries : SeqsUpTo(TimingEntries, MaxEntries)]

SummarizeOff ==
  /\ tpc = "off"
  /\ lhrs = <<>>
  /\ measureFilter = NoFilter
  /\ fi = 0
  /\ measuresMap = <<>>
  /\ results = {}

SummarizeInit ==
  /\ tpc = "read"
  /\ lhrs \in SeqsUpTo(Lhrs, MaxFiles)
  /\ measureFilter \in { NoFilter, [set |-> TRUE, pattern |-> <<"b">>] }
  /\ fi = 1
  /\ measuresMap = <<>>
  /\ results = {}

\* one iteration of the loop over fs.readdirSync(outputDir)
ReadLhr ==
  /\ tpc = "read"
  /\ fi <= Len(lhrs)
  /\ measuresMap' = AddEntries(measuresMap, lhrs[fi], measureFilter, 1)
  /\ fi' = fi + 1
  /\ UNCHANGED <<tpc, lhrs, measureFilter, results>>

\* the rows computed from the map after the loop
Report ==
  /\ tpc = "read"
  /\ fi > Len(lhrs)
  /\ results' = { Row(measuresMap[i]) : i \in 1..Len(measuresMap) }
  /\ tpc' = "done"
  /\ UNCHANGED <<lhrs, measureFilter, fi, measuresMap>>

(* ---------------------------------------------------------------------- *)
(* timings.js: collect                                                      *)
(* ---------------------------------------------------------------------- *)
\* the decimal digits of a small number, as template literals print it
NumberToString(i) ==
  LET digit == <<"0","1","2","3","4","5","6","7","8","9">>
  IN  IF i < 10 THEN <<digit[i + 1]>>
      ELSE <<digit[(i \div 10) + 1], digit[(i % 10) + 1]>>

\* lhr-${url.replace(/[^a-zA-Z0-9]/g, '_')}-${i}.json
LhrFileName(url, i) ==
  <<"lhr-">> \o EscapeNonAlnum(url) \o <<"-">> \o NumberToString(i) \o <<".json">>

CollectUrls == { <<"a",".","b">>, <<"a","_","b">>, <<"c">> }

OldFile == [name |-> <<"old">>, url |-> <<>>, i |-> 0]

\* the directory after the tool has written `name`
WriteFile(dir, name, url, i) ==
  { f \in dir : f.name # name } \cup { [name |-> name, url |-> url, i |-> i] }

CollectOff ==
  /\ cpc = "off"
  /\ urls = <<>>
  /\ argv_n = 0
  /\ strict = FALSE
  /\ outputDir = {}
  /\ ui = 0
  /\ ri = 0

CollectInit ==
  /\ cpc = "start"
  /\ urls \in SeqsUpTo(CollectUrls, MaxUrls)
  /\ argv_n \in 0..MaxN
  /\ strict \in BOOLEAN
  /\ outputDir \in { {}, {OldFile} }
  /\ ui = 1
  /\ ri = 0

\* the directory set-up: the first variant throws on an existing folder, the
\* second removes it
MakeDir ==
  /\ cpc = "start"
  /\ IF outputDir # {} /\ strict
     THEN cpc' = "failed" /\ UNCHANGED outputDir
     ELSE cpc' = "loop" /\ outputDir' = {}
  /\ UNCHANGED <<urls, argv_n, strict, ui, ri>>

\* for (let i = 0; i < argv.n; i++) exhausted for the current url
NextUrl ==
  /\ cpc = "loop"
  /\ ui <= Len(urls)
  /\ ri >= argv_n
  /\ ui' = ui + 1
  /\ ri' = 0
  /\ UNCHANGED <<cpc, urls, argv_n, strict, outputDir>>

\* one execSync of the tool; a failing invocation throws
RunTool(ok) ==
  /\ cpc = "loop"
  /\ ui <= Len(urls)
  /\ ri < argv_n
  /\ IF ok
     THEN /\ outputDir' = WriteFile(outputDir, LhrFileName(urls[ui], ri), urls[ui], ri)
          /\ ri' = ri + 1
          /\ UNCHANGED cpc
     ELSE /\ cpc' = "failed"
          /\ UNCHANGED <<outputDir, ri>>
  /\ UNCHANGED <<urls, argv_n, strict, ui>>

CollectDone ==
  /\ cpc = "loop"
  /\ ui > Len(urls)
  /\ cpc' = "done"
  /\ UNCHANGED <<urls, argv_n, strict, outputDir, ui, ri>>


Init == SmokeInit /\ NormOff /\ SummarizeOff /\ CollectOff

Next ==
  \/ \E code \in ToolExitCodes : Spawn(code) /\ UNCHANGED <<nvars, tvars, cvars>>
  \/ \E outputExists \in BOOLEAN, runtimeError \in BOOLEAN :
       CheckRun(outputExists, runtimeError) /\ UNCHANGED <<nvars, tvars, cvars>>
  \/ \E toolStderr \in ToolStderrs, counts \in ReportCounts :
       Compare(toolStderr, counts[1], counts[2]) /\ UNCHANGED <<nvars, tvars, cvars>>
  \/ Summary /\ UNCHANGED <<nvars, tvars, cvars>>

Spec == Init /\ [][Next]_vars


(* ---------------------------------------------------------------------- *)
(* Properties of the smoke runner                                           *)
(* ---------------------------------------------------------------------- *)
\* C1: the tool is invoked at least once and at most 4 times per expectation,
\* and every attempt but the last exited with the timeout code 67.
C1_BoundedRetry ==
  /\ runCount = Len(attempts)
  /\ runCount <= 4
  /\ pc \in {"ran", "checked"} => runCount >= 1
  /\ \A k \in 1..(Len(attempts) - 1) : attempts[k] = 67
  /\ pc = "run" => \A k \in 1..Len(attempts) : attempts[k] = 67

\* C1 witness: the initial attempt and all three retries timed out.
C1_Witness ==
  /\ pc = "ran"
  /\ attempts = <<67, 67, 67, 67>>

\* C2: every fatal condition ends the process with a non-zero exit status and
\* the expectation it struck, and every later one, is never compared.
C2_FatalNonZero ==
  (pc = "exit" /\ fatal # "none") =>
     /\ exitStatus # 0
     /\ \A k \in 1..Len(compared) : compared[k] < idx

RunDisagrees(run) ==
  /\ run.ran
  /\ run.exitCode # PROTOCOL_TIMEOUT_EXIT_CODE
  /\ run.outputExists
  /\ (run.exitCode # 0) # run.runtimeError

C3_State ==
  /\ (lastRun.compared \/ pc = "checked") =>
        ((lastRun.exitCode # 0) <=> lastRun.runtimeError)
  /\ RunDisagrees(lastRun) =>
        /\ pc = "exit"
        /\ exitStatus = 1
        /\ ~lastRun.compared
        /\ files[lastRun.path] = lastRun.before
        /\ expectations[lastRun.idx].stderr = lastRun.expected
        /\ \A k \in 1..Len(compared) : compared[k] < lastRun.idx

\* C3: the comparison is reached only with an exit code that is non-zero
\* exactly when the result has a runtimeError; a disagreement ends the run
\* with status 1, the snapshot untouched, and nothing runs after the exit.
C3_ExitCodeAgreement == [](C3_State) /\ [][pc # "exit"]_vars

\* C3 witness: the tool exited 1 with a runtimeError and the expectation was
\* compared.
C3_Witness ==
  /\ lastRun.compared
  /\ lastRun.exitCode = 1
  /\ lastRun.runtimeError

\* C4: in update mode the snapshot file after a compared run holds exactly the
\* normalized error lines of that run, and they are the expected error lines
\* handed to the comparison.
C4_UpdateWritesSnapshot ==
  (lastRun.compared /\ updateSnaphots) =>
     /\ files[lastRun.path].exists
     /\ JsonParse(files[lastRun.path].data) = lastRun.stderr
     /\ lastRun.expected = SetTo(lastRun.stderr)
     /\ expectations[lastRun.idx].stderr = SetTo(lastRun.stderr)

\* C4 witness: update mode overwrote an existing snapshot with different,
\* non-empty error lines.
C4_Witness ==
  /\ lastRun.compared
  /\ updateSnaphots
  /\ lastRun.before.exists
  /\ lastRun.stderr # <<>>
  /\ files[lastRun.path] # lastRun.before

\* C5: two compared expectations with the same requested URL use the same
\* snapshot path, and two with the same base URL but different query strings
\* use different snapshot paths.
C5_QuerySensitivePath ==
  \A i \in 1..Len(compared), j \in 1..Len(compared) :
    LET u == expectations[i].requestedUrl
        v == expectations[j].requestedUrl
    IN  /\ u = v => getSnapshotPath(u) = getSnapshotPath(v)
        /\ (UrlHrefNoSearch(u) = UrlHrefNoSearch(v) /\ UrlSearch(u) # UrlSearch(v))
              => getSnapshotPath(u) # getSnapshotPath(v)

MissingNoUpdate(run) == run.ran /\ ~updateSnaphots /\ ~run.before.exists

\* C6: with no snapshot file and update mode off, no snapshot file is created,
\* the expected error lines are unset when the comparison is called, and the
\* expectation is compared unless the run ended fatally.
C6_MissingSnapshotSkipped ==
  MissingNoUpdate(lastRun) =>
     /\ ~files[lastRun.path].exists
     /\ lastRun.compared =>
           /\ ~lastRun.expected.set
           /\ ~expectations[lastRun.idx].stderr.set
     /\ (fatal = "none" /\ pc # "checked") =>
           /\ lastRun.compared
           /\ \E k \in 1..Len(compared) : compared[k] = lastRun.idx

\* C6 witness: an expectation without a snapshot was compared with update mode
\* off, the tool having printed error lines.
C6_Witness ==
  /\ MissingNoUpdate(lastRun)
  /\ lastRun.compared
  /\ lastRun.stderr # <<>>
  /\ lastRun.passed = 1
  /\ lastRun.failed = 0

C7_State ==
  /\ compared = [k \in 1..Len(compared) |-> k]
  /\ Len(compared) <= Len(expectations)
  /\ passingCount = counted[1]
  /\ failingCount = counted[2]
  /\ (pc = "summary" \/ (pc = "exit" /\ fatal = "none")) =>
        Len(compared) = Len(expectations)
  /\ (pc = "exit" /\ fatal = "none") =>
        exitStatus = IF failingCount > 0 THEN 1 ELSE 0

\* C7: without a fatal condition every expectation is compared once, in list
\* order; the counters never decrease and equal the sums of the reported
\* counts; the exit status is 1 if anything failed and 0 otherwise.
C7_CountsAndExit ==
  [](C7_State)
    /\ [][passingCount' >= passingCount /\ failingCount' >= failingCount]_vars

\* C7 witness: the first of two expectations failed, the second was still
\* compared and passed, and the run exited with status 1.
C7_Witness ==
  /\ pc = "exit"
  /\ fatal = "none"
  /\ compared = <<1, 2>>
  /\ failingCount = 1
  /\ passingCount = 1
  /\ lastRun.idx = 2
  /\ lastRun.failed = 0
  /\ exitStatus = 1

(* ---------------------------------------------------------------------- *)
(* The normalization on its own                                            *)
(* ---------------------------------------------------------------------- *)
NormInit ==
  /\ npc = "raw"
  /\ rawStderr \in RawStderrs
  /\ once = <<>>
  /\ twice = <<>>
  /\ SmokeOff /\ SummarizeOff /\ CollectOff

\* the normalization as runLighthouse applies it to the tool's stderr
NormalizeRaw ==
  /\ npc = "raw"
  /\ once' = Normalize(rawStderr)
  /\ npc' = "normalized"
  /\ UNCHANGED <<rawStderr, twice, svars, tvars, cvars>>

\* the same map/filter applied to the already-normalized line array
NormalizeAgain ==
  /\ npc = "normalized"
  /\ twice' = NormalizeLines(once)
  /\ npc' = "renormalized"
  /\ UNCHANGED <<rawStderr, once, svars, tvars, cvars>>

NormNext == NormalizeRaw \/ NormalizeAgain

SpecNormalize == NormInit /\ [][NormNext]_vars

\* C8 (as stated): re-normalizing an already-normalized line sequence yields
\* the same sequence, for every input.
C8_IdempotentAlways == npc = "renormalized" => twice = once

NoWeekdayLine(lines) == \A i \in 1..Len(lines) : ~BeginsWithWeekday(lines[i])

\* C8 (amended): re-normalizing a normalized line sequence none of whose lines
\* begins with a weekday name yields the same sequence.
C8_IdempotentNoWeekday ==
  (npc = "renormalized" /\ NoWeekdayLine(once)) => twice = once

\* C8 witness: a timestamped line was stripped and kept, another line was
\* dropped, and the normalized result was normalized again.
C8_Witness ==
  /\ npc = "renormalized"
  /\ NoWeekdayLine(once)
  /\ once # <<>>
  /\ Len(once) < Len(Split(rawStderr))
  /\ \E i \in 1..Len(Split(rawStderr)) :
        /\ BeginsWithWeekday(Split(rawStderr)[i])
        /\ HasLevelMarker(StripTimestamp(Split(rawStderr)[i]))

(* ---------------------------------------------------------------------- *)
(* The timing summarizer on its own                                        *)
(* ---------------------------------------------------------------------- *)
InitSummarize == SummarizeInit /\ SmokeOff /\ NormOff /\ CollectOff

NextSummarize ==
  \/ ReadLhr /\ UNCHANGED <<nvars, svars, cvars>>
  \/ Report /\ UNCHANGED <<nvars, svars, cvars>>

SpecSummarize == InitSummarize /\ [][NextSummarize]_vars

RECURSIVE CountIn(_, _)
CountIn(q, x) ==
  IF q = <<>> THEN 0
  ELSE (IF Head(q) = x THEN 1 ELSE 0) + CountIn(Tail(q), x)

\* the durations of the entries of lhr named measureName
DurationsOf(lhr, measureName) ==
  LET sel == SelectSeq(lhr.entries, LAMBDA e : e.name = measureName)
  IN  [i \in 1..Len(sel) |-> sel[i].duration]

RECURSIVE MatchingDurations(_, _, _)
\* the durations of all entries of url named measureName, over files 1..k
MatchingDurations(url, measureName, k) ==
  IF k = 0 THEN <<>>
  ELSE MatchingDurations(url, measureName, k - 1) \o
         (IF lhrs[k].requestedUrl = url
          THEN DurationsOf(lhrs[k], measureName) ELSE <<>>)

MeasuresOf(key) ==
  IF MapIndex(measuresMap, key) = 0 THEN <<>>
  ELSE measuresMap[MapIndex(measuresMap, key)].measures

\* C9: after the summary, the samples of each (url, name) that passes the
\* filter are exactly the durations of the entries with that url and name,
\* each once, and the row's n, min and max are those of these durations.
C9_EachEntryOnce ==
  tpc = "done" =>
    \A url \in LhrUrls, name \in MeasureNames :
      LET want == MatchingDurations(url, name, Len(lhrs))
          got == MeasuresOf(MeasuresKey(url, name))
      IN  ~FilteredOut(measureFilter, name) =>
            /\ \A d \in Durations : CountIn(got, d) = CountIn(want, d)
            /\ want # <<>> =>
                 [measure |-> name, url |-> url, n |-> Len(want),
                  min |-> round(SeqMin(want)), max |-> round(SeqMax(want))]
                   \in results

(* ---------------------------------------------------------------------- *)
(* The timing collection on its own                                        *)
(* ---------------------------------------------------------------------- *)
InitCollect == CollectInit /\ SmokeOff /\ NormOff /\ SummarizeOff

NextCollect ==
  \/ MakeDir /\ UNCHANGED <<nvars, svars, tvars>>
  \/ NextUrl /\ UNCHANGED <<nvars, svars, tvars>>
  \/ \E ok \in BOOLEAN : RunTool(ok) /\ UNCHANGED <<nvars, svars, tvars>>
  \/ CollectDone /\ UNCHANGED <<nvars, svars, tvars>>

SpecCollect == InitCollect /\ [][NextCollect]_vars

\* C10: after a collection of distinct URLs in which every invocation
\* succeeded, the output directory holds one result file per run.
C10_OneFilePerRun ==
  (cpc = "done" /\ \A a, b \in 1..Len(urls) : a # b => urls[a] # urls[b]) =>
     /\ Cardinality(outputDir) = Len(urls) * argv_n
     /\ \A a \in 1..Len(urls), i \in 0..(argv_n - 1) :
          [name |-> LhrFileName(urls[a], i), url |-> urls[a], i |-> i] \in outputDir

====
